---- MODULE Spec2Model ----
(***************************************************************************)
(* One SOCKS5 session of @apofasi/socks, in its two implementations:       *)
(*   "server"  server.ts  (positional parser of binary.ts)                 *)
(*   "legacy"  socks5.ts  (declarative `binary` stream parser)             *)
(* A session is a client socket whose 'data' events are consumed by        *)
(* once-handlers (handshake, authenticate, connect); every reply is a      *)
(* socket.write / socket.end, and the next handler is armed in the write   *)
(* callback. Buffers are sequences of bytes, indexed from 0 through At.    *)
(***************************************************************************)
EXTENDS Integers, Sequences, FiniteSets, TLC

\* ------------------------------------------------------------ constants
RFC_1928_VERSION == 5
RFC_1929_VERSION == 1
ATYP_IPV4 == 1
ATYP_DOMAINNAME == 3
ATYP_IPV6 == 4
CMD_CONNECT == 1
CMD_BIND == 2
CMD_UDP_ASSOCIATE == 3
NO_AUTHENTICATION_REQUIRED == 0
GSSAPI == 1
BASIC_AUTHENTICATION == 2
NO_ACCEPTABLE_METHODS == 255
SUCCEEDED == 0
GENERAL_FAILURE == 1
CONNECTION_NOT_ALLOWED == 2
NETWORK_UNREACHABLE == 3
HOST_UNREACHABLE == 4
CONNECTION_REFUSED == 5
COMMAND_NOT_SUPPORTED == 7
ADDRESS_TYPE_NOT_SUPPORTED == 8
AUTH_SUCCEEDED == 0
AUTH_GENERAL_FAILURE == 255
LENGTH_RFC_1928_ATYP == 4

\* ---------------------------------------------------------------- bounds
\* Longest method list a Greeting of the model offers.
MaxMethods == 2
\* Most chunks either peer sends through the relay.
MaxRelay == 2
\* most sockets of other sessions in activeSessions
MaxPeers == 2

\* --------------------------------------------------------------- buffers
\* A read outside a Buffer (buffer[i]) yields undefined; the `binary` parser
\* yields null for a word it cannot read.
Undef == -1

Min(a, b) == IF a < b THEN a ELSE b

\* buffer[i], 0-based (Undef stands for undefined and for null)
At(buf, i) == IF i >= 0 /\ i < Len(buf) THEN buf[i + 1] ELSE Undef

\* buffer.subarray(a, b), 0-based, end exclusive, clamped to the buffer
Sub(buf, a, b) == SubSeq(buf, a + 1, Min(b, Len(buf)))

\* buffer.subarray(a)
From(buf, a) == SubSeq(buf, a + 1, Len(buf))

\* methods.includes(m)
Includes(buf, m) == \E i \in 1..Len(buf) : buf[i] = m

\* buffer.readUInt16BE(off); the caller checks the range first
ReadUInt16BE(buf, off) == At(buf, off) * 256 + At(buf, off + 1)

\* a copy of buf with buf[i] = v (an index outside the buffer is ignored)
SetAt(buf, i, v) == IF i >= 0 /\ i < Len(buf) THEN [buf EXCEPT ![i + 1] = v] ELSE buf

RECURSIVE SeqsUpTo(_, _)
SeqsUpTo(S, n) ==
  IF n = 0 THEN {<<>>}
  ELSE LET shorter == SeqsUpTo(S, n - 1)
       IN shorter \cup {Append(s, x) : s \in shorter, x \in S}

\* ------------------------------------------------- what the client sends
\* Credentials the authenticate callback of the tests accepts, one byte each.
TEST_USERNAME == <<117>>
TEST_PASSWORD == <<112>>
WrongCredential == <<120>>

MethodLists == SeqsUpTo({NO_AUTHENTICATION_REQUIRED, GSSAPI, BASIC_AUTHENTICATION}, MaxMethods)

\* VER NMETHODS METHODS, with a bad version, a wrong NMETHODS and a 1-byte frame
Greetings ==
  {<<v, Len(ms) + d>> \o ms : v \in {4, RFC_1928_VERSION}, d \in {0, 1}, ms \in MethodLists}
  \cup {<<RFC_1928_VERSION>>}

\* VER ULEN UNAME PLEN PASSWD, with a bad version and truncated frames
AuthRequests ==
  {<<v, Len(u)>> \o u \o <<Len(p)>> \o p :
     v \in {RFC_1929_VERSION, RFC_1928_VERSION},
     u \in {TEST_USERNAME, WrongCredential},
     p \in {TEST_PASSWORD, WrongCredential}}
  \cup {<<RFC_1929_VERSION>>, <<RFC_1929_VERSION, 1, 117>>}

AddrBytes(atyp) ==
  CASE atyp = ATYP_IPV4 -> <<127, 0, 0, 1>>
    [] atyp = ATYP_DOMAINNAME -> <<1, 97>>
    [] atyp = ATYP_IPV6 -> <<32, 1, 13, 184, 0, 0, 0, 0, 0, 0, 0, 0, 0, 0, 0, 1>>
    [] OTHER -> <<127, 0, 0, 1>>

\* VER CMD RSV ATYP DST.ADDR DST.PORT, with a bad version, the three commands,
\* an unsupported atyp, a non-zero reserved byte and truncated frames
ConnectRequests ==
  {<<v, c, 0, a>> \o AddrBytes(a) \o <<0, 80>> :
     v \in {4, RFC_1928_VERSION},
     c \in {CMD_CONNECT, CMD_BIND, CMD_UDP_ASSOCIATE},
     a \in {ATYP_IPV4, 2, ATYP_DOMAINNAME, ATYP_IPV6}}
  \cup {<<RFC_1928_VERSION, CMD_CONNECT, 1, ATYP_IPV4>> \o AddrBytes(ATYP_IPV4) \o <<0, 80>>,
        <<RFC_1928_VERSION, CMD_CONNECT, 0>>,
        <<RFC_1928_VERSION, CMD_CONNECT, 0, ATYP_IPV4, 127, 0>>,
        <<RFC_1928_VERSION, CMD_CONNECT, 0, ATYP_DOMAINNAME>>}

Frames == Greetings \cup AuthRequests \cup ConnectRequests

\* Addresses and ports for the decoding of DST.ADDR and DST.PORT: IPv4 and
\* IPv6 addresses with zero bytes, high bytes and groups that need fewer than
\* four hex digits; domain names of 0, 1 and 4 ASCII bytes.
DecodeAddrs(atyp) ==
  CASE atyp = ATYP_IPV4 -> {<<127, 0, 0, 1>>, <<192, 168, 0, 255>>}
    [] atyp = ATYP_DOMAINNAME -> {<<0>>, <<1, 97>>, <<4, 97, 46, 105, 111>>}
    [] OTHER -> {<<32, 1, 13, 184, 0, 0, 0, 0, 0, 0, 0, 0, 0, 0, 0, 1>>,
                 <<255, 255, 128, 0, 0, 10, 1, 0, 171, 205, 0, 0, 15, 240, 18, 52>>}

DecodePorts == {<<0, 80>>, <<1, 187>>, <<255, 255>>}

\* CONNECT requests that are long enough for their address and port
DecodeRequests ==
  UNION {{<<RFC_1928_VERSION, CMD_CONNECT, 0, a>> \o addr \o port :
            addr \in DecodeAddrs(a), port \in DecodePorts} :
         a \in {ATYP_IPV4, ATYP_DOMAINNAME, ATYP_IPV6}}

\* Opaque payload chunks of the relay; one looks like a Greeting.
RelayChunks == {<<170>>, <<RFC_1928_VERSION, 1, 0>>}

\* Error codes an outbound connect or stream fails with ("" : no code).
ErrorCodes == {"EADDRNOTAVAIL", "ECONNREFUSED", "ETIMEDOUT", ""}

\* ----------------------------------------------------------------- state
VARIABLES
  impl,           \* "server" | "legacy"
  hasAuth,        \* options.authenticate is configured
  hasFilter,      \* options.connectionFilter is configured
  hasFactory,     \* options.socketFactory is configured
  greeting,       \* the Greeting a client of SpecGreeting opens with
  script,         \* the reads a client of SpecScript delivers, in order
  segmentation,   \* how the script cuts the client's bytes into reads
  armed,          \* the once('data') handler registered on the client socket
  wire,           \* what the client socket accepted, in order: [kind, bytes]
  writeCbs,       \* callbacks of socket.write not yet run, in order
  sockEnded,      \* socket.end() was called: later writes are refused
  crashed,        \* an exception left a handler uncaught
  ends,           \* the calls of end(): [code, by]
  handled,        \* the handlers that ran, in order
  authReq,        \* credentials handed to options.authenticate, awaiting done()
  authOk,         \* done() was called without error
  req,            \* the ConnectRequest buffer the connect handler keeps
  filterPending,  \* the connection filter was called, awaiting its callback
  factory,        \* "idle" | "pending" | "resolved" | "rejected"
  factoryCalls,   \* how often the outbound factory was invoked
  connector,      \* the function invoked for the outbound connect
  rejCode,        \* the code of the error the factory rejected with
  dst,            \* (addr, port) handed to the outbound factory
  registered,     \* how often the socket is in activeSessions
  destOpen,       \* the outbound stream exists and has not failed
  destFlowing,    \* a 'data' listener put the outbound stream in flowing mode
  destErrHandler, \* an 'error' listener is on the outbound stream
  piped,          \* destination.pipe(socket) and socket.pipe(destination) ran
  destBuf,        \* chunks the paused outbound stream holds
  destProduced,   \* every chunk the outbound stream produced
  toDest,         \* chunks written to the outbound stream
  clientSent,     \* chunks the client sent once the pipes were set up
  emitted,        \* the events emitted on the server object, in order
  closing,        \* close(): "no" | "called" | "done" (its callback ran)
  clientGone,     \* the client connection: "no" | "end" (FIN) | "error"
  goneDuring,     \* the phase the session was in when the client went
  destEnded,      \* end() was called on the outbound stream
  destGone,       \* the outbound stream: "no" | "end" (FIN) | "error"
  peers,          \* how many sockets of other sessions are in activeSessions
  pos             \* how many reads of the script were delivered

cfgVars == <<impl, hasAuth, hasFilter, hasFactory, greeting, script, segmentation>>
sockVars == <<armed, wire, writeCbs, sockEnded, crashed, ends, handled>>
authVars == <<authReq, authOk>>
connVars == <<req, filterPending, factory, factoryCalls, connector, rejCode, dst, registered>>
destVars == <<destOpen, destFlowing, destErrHandler, piped, destBuf, destProduced, toDest, clientSent>>
lifeVars == <<closing, clientGone, goneDuring, destEnded, destGone, peers, pos>>
vars == <<cfgVars, sockVars, authVars, connVars, destVars, emitted, lifeVars>>

NoAuthReq == [uname |-> <<>>, passwd |-> <<>>, buf |-> <<>>, pending |-> FALSE]
NoDst == [kind |-> "none", addr |-> <<>>, port |-> Undef]

\* A session right after net.createServer's connection callback ran.
InitSession ==
  /\ impl \in {"server", "legacy"}
  /\ hasAuth \in BOOLEAN
  /\ hasFilter \in BOOLEAN
  /\ hasFactory \in BOOLEAN
  /\ armed = "handshake"
  /\ wire = <<>>
  /\ writeCbs = <<>>
  /\ sockEnded = FALSE
  /\ crashed = FALSE
  /\ ends = <<>>
  /\ handled = <<>>
  /\ authReq = NoAuthReq
  /\ authOk = FALSE
  /\ req = <<>>
  /\ filterPending = FALSE
  /\ factory = "idle"
  /\ factoryCalls = 0
  /\ connector = "none"
  /\ rejCode = ""
  /\ dst = NoDst
  /\ registered = 0
  /\ destOpen = FALSE
  /\ destFlowing = FALSE
  /\ destErrHandler = FALSE
  /\ piped = FALSE
  /\ destBuf = <<>>
  /\ destProduced = <<>>
  /\ toDest = <<>>
  /\ clientSent = <<>>
  /\ emitted = <<>>
  /\ closing = "no"
  /\ clientGone = "no"
  /\ goneDuring = "none"
  /\ destEnded = FALSE
  /\ destGone = "no"
  /\ peers = 0
  /\ pos = 0

\* A client that follows no script.
NoScript == script = <<>> /\ segmentation = "frames"

\* A session of a server configured without socketFactory: the outbound
\* connect is the default TCP connect.
Init == InitSession /\ greeting = <<>> /\ NoScript /\ ~hasFactory

\* A session of a server configured with a socketFactory.
InitFactory == InitSession /\ greeting = <<>> /\ NoScript /\ hasFactory

\* ------------------------------------------------------- socket plumbing
Reply(kind, bytes) == [kind |-> kind, bytes |-> bytes]

\* socket.write(bytes, cb): an ended socket refuses the bytes; the callback is
\* queued either way.
Write(kind, bytes, cb) ==
  /\ wire' = IF sockEnded THEN wire ELSE Append(wire, Reply(kind, bytes))
  /\ writeCbs' = Append(writeCbs, cb)

\* options.authenticate of the tests: accept one username/password pair.
Authenticator(uname, passwd) == uname = TEST_USERNAME /\ passwd = TEST_PASSWORD

\* A selection that ignores options.socketFactory.
MutSocketFactory == "defaultSocketFactory"

\* The function the connect handler invokes for the outbound connect:
\* options.socketFactory when configured, else the default TCP connect.
SocketFactory == IF hasFactory THEN "socketFactory" ELSE "defaultSocketFactory"

\* ------------------------------------------------- server.ts / binary.ts
\* BinaryReader.word8 throws a RangeError past the end of the buffer;
\* readBuffer clamps and still advances.
ParseAuthThrows(buffer) ==
  \/ Len(buffer) < 2
  \/ 2 + At(buffer, 1) >= Len(buffer)

ParseAuthRequest(buffer) ==
  LET ulen == At(buffer, 1)
      plen == At(buffer, 2 + ulen)
  IN [ver |-> At(buffer, 0),
      ulen |-> ulen,
      uname |-> Sub(buffer, 2, 2 + ulen),
      plen |-> plen,
      passwd |-> Sub(buffer, 3 + ulen, 3 + ulen + plen),
      requestBuffer |-> buffer]

ParseConnectThrows(buffer) == Len(buffer) < 4

ParseConnectRequest(buffer) ==
  [ver |-> At(buffer, 0),
   cmd |-> At(buffer, 1),
   rsv |-> At(buffer, 2),
   atyp |-> At(buffer, 3),
   requestBuffer |-> buffer,
   remaining |-> From(buffer, 4)]

\* a.b.c.d: the decimal values of the bytes, joined by "."
ParseIPv4Address(buffer) == [kind |-> "dotted", parts |-> buffer]

\* reader.word32be(): buf.readUInt32BE(pos). The unsigned 32-bit value is
\* kept as two 16-bit limbs, value = hi * 65536 + lo, since it can exceed
\* the integers of the model checker.
Word32BE(buf, off) ==
  [hi |-> buf[off + 1] * 256 + buf[off + 2], lo |-> buf[off + 3] * 256 + buf[off + 4]]

\* value >>> 16 and value & 0xffff of an unsigned 32-bit value
ShiftRight16(value) == value.hi
And0xffff(value) == value.lo

\* A parse that pushes value & 0xffff before value >>> 16.
MutParseIPv6Address(buffer) ==
  [kind |-> "colon-hex",
   parts |-> [i \in 1..8 |->
                LET value == Word32BE(buffer, 4 * ((i - 1) \div 2)) IN
                IF i % 2 = 1 THEN And0xffff(value) ELSE ShiftRight16(value)]]

\* Four word32be reads; of each the groups value >>> 16 and value & 0xffff,
\* in this order; joined by ":" as hex (see HostText).
ParseIPv6Address(buffer) ==
  [kind |-> "colon-hex",
   parts |-> [i \in 1..8 |->
                LET value == Word32BE(buffer, 4 * ((i - 1) \div 2)) IN
                IF i % 2 = 1 THEN ShiftRight16(value) ELSE And0xffff(value)]]

\* Number.prototype.toString(radix), as the sequence of its characters:
\* lowercase digits, no padding.
Digits == <<"0", "1", "2", "3", "4", "5", "6", "7", "8", "9", "a", "b", "c", "d", "e", "f">>
RECURSIVE NumToString(_, _)
NumToString(n, radix) ==
  IF n < radix THEN <<Digits[n + 1]>>
  ELSE NumToString(n \div radix, radix) \o <<Digits[(n % radix) + 1]>>

\* Array.prototype.join(sep) of character sequences
RECURSIVE Join(_, _)
Join(parts, sep) ==
  IF Len(parts) = 0 THEN <<>>
  ELSE IF Len(parts) = 1 THEN parts[1]
  ELSE parts[1] \o <<sep>> \o Join(Tail(parts), sep)

\* The host string of a decoded address: Array.from(buffer).join("."), the
\* hex groups joined by ":", or the bytes of the name (ASCII, one character
\* each).
HostText(kind, parts) ==
  CASE kind = "dotted" -> Join([i \in 1..Len(parts) |-> NumToString(parts[i], 10)], ".")
    [] kind = "colon-hex" -> Join([i \in 1..Len(parts) |-> NumToString(parts[i], 16)], ":")
    [] OTHER -> parts

ParseDomainName(buffer) ==
  [size |-> At(buffer, 0),
   addr |-> [kind |-> "text", parts |-> Sub(buffer, 1, 1 + At(buffer, 0))]]

\* The destination server.ts computes from a parsed request, or the RangeError
\* of a read past the end (readUInt16BE, word8, word32be).
ServerDestination(request) ==
  LET rem == request.remaining IN
  CASE request.atyp = ATYP_IPV4 ->
         IF Len(rem) < 6 THEN [throws |-> TRUE, supported |-> TRUE, addr |-> <<>>, port |-> Undef]
         ELSE [throws |-> FALSE, supported |-> TRUE,
               addr |-> ParseIPv4Address(Sub(rem, 0, 4)),
               port |-> ReadUInt16BE(rem, 4)]
    [] request.atyp = ATYP_DOMAINNAME ->
         IF Len(rem) < 1 \/ Len(rem) < At(rem, 0) + 3
         THEN [throws |-> TRUE, supported |-> TRUE, addr |-> <<>>, port |-> Undef]
         ELSE [throws |-> FALSE, supported |-> TRUE,
               addr |-> ParseDomainName(rem).addr,
               port |-> ReadUInt16BE(rem, ParseDomainName(rem).size + 1)]
    [] request.atyp = ATYP_IPV6 ->
         IF Len(rem) < 18 THEN [throws |-> TRUE, supported |-> TRUE, addr |-> <<>>, port |-> Undef]
         ELSE [throws |-> FALSE, supported |-> TRUE,
               addr |-> ParseIPv6Address(Sub(rem, 0, 16)),
               port |-> ReadUInt16BE(rem, 16)]
    [] OTHER -> [throws |-> FALSE, supported |-> FALSE, addr |-> <<>>, port |-> Undef]

\* A greeting handler that takes NO_AUTH whenever the client offers it, with
\* or without an authenticate callback.
MutServerSelectMethod(buffer, auth) ==
  IF At(buffer, 0) # RFC_1928_VERSION \/ Len(buffer) < 2 \/ At(buffer, 1) # Len(buffer) - 2
  THEN [code |-> GENERAL_FAILURE, next |-> "end"]
  ELSE IF Includes(From(buffer, 2), NO_AUTHENTICATION_REQUIRED)
  THEN [code |-> NO_AUTHENTICATION_REQUIRED, next |-> "connect"]
  ELSE IF auth /\ Includes(From(buffer, 2), BASIC_AUTHENTICATION)
  THEN [code |-> BASIC_AUTHENTICATION, next |-> "authenticate"]
  ELSE [code |-> NO_ACCEPTABLE_METHODS, next |-> "end"]

\* The greeting handler's decision: the method or code it writes and what
\* follows.
ServerSelectMethod(buffer, auth) ==
  LET methods == From(buffer, 2) IN
  IF \/ At(buffer, 0) # RFC_1928_VERSION
     \/ Len(buffer) < 2
     \/ At(buffer, 1) # Len(buffer) - 2
  THEN [code |-> GENERAL_FAILURE, next |-> "end"]
  ELSE IF Includes(methods, BASIC_AUTHENTICATION) /\ ~auth
  THEN [code |-> GENERAL_FAILURE, next |-> "end"]
  ELSE IF auth /\ Includes(methods, BASIC_AUTHENTICATION)
  THEN [code |-> BASIC_AUTHENTICATION, next |-> "authenticate"]
  ELSE IF ~auth /\ Includes(methods, NO_AUTHENTICATION_REQUIRED)
  THEN [code |-> NO_AUTHENTICATION_REQUIRED, next |-> "connect"]
  ELSE [code |-> NO_ACCEPTABLE_METHODS, next |-> "end"]

\* An end() whose write callback listens for the next frame instead of ending
\* the socket.
MutServerEnd(code, by, kind) ==
  /\ Write(kind, <<RFC_1928_VERSION, code>>, "connect")
  /\ ends' = Append(ends, [code |-> code, by |-> by])

\* end(code, args): a 2-byte reply, and socket.end() in the write callback
ServerEnd(code, by, kind) ==
  /\ Write(kind, <<RFC_1928_VERSION, code>>, "sockEnd")
  /\ ends' = Append(ends, [code |-> code, by |-> by])

\* A success reply made as socks5.ts makes it: a copy of the request with
\* byte 1 overwritten, which keeps the request's version and reserved bytes.
MutServerSuccessReply(requestBuffer) == SetAt(requestBuffer, 1, SUCCEEDED)

\* The reply of a resolved outbound connect: 05 00 00, then the request from
\* index 3 on.
ServerSuccessReply(requestBuffer) ==
  Sub(<<RFC_1928_VERSION, SUCCEEDED, 0>>, 0, Len(requestBuffer)) \o From(requestBuffer, 3)

\* A greeting handler that registers the next handler right after socket.write
\* as well as in its callback.
MutServerHandshake(buffer) ==
  LET d == ServerSelectMethod(buffer, hasAuth) IN
  /\ handled' = Append(handled, "handshake")
  /\ IF d.next = "end"
     THEN armed' = "none" /\ ServerEnd(d.code, "handshake", "method")
     ELSE /\ armed' = d.next
          /\ Write("method", <<RFC_1928_VERSION, d.code>>, d.next)
          /\ UNCHANGED ends
  /\ UNCHANGED <<sockEnded, crashed, cfgVars, authVars, connVars, destVars, emitted>>

ServerHandshake(buffer) ==
  LET d == ServerSelectMethod(buffer, hasAuth) IN
  /\ handled' = Append(handled, "handshake")
  /\ armed' = "none"
  /\ IF d.next = "end"
     THEN ServerEnd(d.code, "handshake", "method")
     ELSE Write("method", <<RFC_1928_VERSION, d.code>>, d.next) /\ UNCHANGED ends
  /\ UNCHANGED <<sockEnded, crashed, cfgVars, authVars, connVars, destVars, emitted>>

\* A version check that lets every sub-negotiation version through.
MutAuthVersionOk(ver) == TRUE

\* request.ver !== RFC_1929_VERSION ends the sub-negotiation.
AuthVersionOk(ver) == ver = RFC_1929_VERSION

ServerAuthenticate(buffer) ==
  /\ handled' = Append(handled, "authenticate")
  /\ armed' = "none"
  /\ IF ParseAuthThrows(buffer)
     THEN /\ crashed' = TRUE
          /\ UNCHANGED <<wire, writeCbs, ends, authReq>>
     ELSE LET request == ParseAuthRequest(buffer) IN
          /\ crashed' = FALSE
          /\ IF ~AuthVersionOk(request.ver)
             THEN ServerEnd(AUTH_GENERAL_FAILURE, "authenticate", "auth") /\ UNCHANGED authReq
             ELSE /\ UNCHANGED <<wire, writeCbs, ends>>
                  /\ authReq' = IF hasAuth
                                THEN [uname |-> request.uname, passwd |-> request.passwd,
                                      buf |-> buffer, pending |-> TRUE]
                                ELSE authReq
  /\ UNCHANGED <<sockEnded, authOk, cfgVars, connVars, destVars, emitted>>

\* the callback handed to options.authenticate
ServerAuthDone(err) ==
  /\ authReq' = [authReq EXCEPT !.pending = FALSE]
  /\ emitted' = Append(emitted, IF err THEN "authenticateError" ELSE "authenticate")
  /\ IF err
     THEN ServerEnd(AUTH_GENERAL_FAILURE, "authDone", "auth") /\ UNCHANGED authOk
     ELSE /\ authOk' = TRUE
          /\ Write("auth", <<RFC_1929_VERSION, AUTH_SUCCEEDED>>, "connect")
          /\ UNCHANGED ends
  /\ UNCHANGED <<armed, sockEnded, crashed, handled, cfgVars, connVars, destVars>>

ServerConnect(buffer) ==
  /\ handled' = Append(handled, "connect")
  /\ armed' = "none"
  /\ IF ParseConnectThrows(buffer)
     THEN /\ crashed' = TRUE
          /\ UNCHANGED <<wire, writeCbs, ends, connVars>>
     ELSE LET request == ParseConnectRequest(buffer)
              d == ServerDestination(request)
          IN IF request.ver # RFC_1928_VERSION
             THEN /\ ServerEnd(GENERAL_FAILURE, "connect", "connect")
                  /\ req' = buffer
                  /\ UNCHANGED <<crashed, filterPending, factory, factoryCalls, connector, rejCode,
                                 dst, registered>>
             ELSE /\ registered' = registered + 1
                  /\ req' = buffer
                  /\ IF ~d.supported
                     THEN /\ ServerEnd(ADDRESS_TYPE_NOT_SUPPORTED, "connect", "connect")
                          /\ UNCHANGED <<crashed, filterPending, factory, factoryCalls, connector, rejCode, dst>>
                     ELSE IF d.throws
                     THEN /\ crashed' = TRUE
                          /\ UNCHANGED <<wire, writeCbs, ends, filterPending, factory,
                                         factoryCalls, connector, rejCode, dst>>
                     ELSE /\ dst' = [kind |-> d.addr.kind, addr |-> d.addr.parts, port |-> d.port]
                          /\ factory' = "pending"
                          /\ factoryCalls' = factoryCalls + 1
                          /\ connector' = SocketFactory
                          /\ UNCHANGED <<wire, writeCbs, ends, crashed, filterPending, rejCode>>
  /\ UNCHANGED <<sockEnded, cfgVars, authVars, destVars, emitted>>

\* outboundSocket.then(...)
ServerThen ==
  /\ factory' = "resolved"
  /\ destOpen' = TRUE
  /\ Write("connect", ServerSuccessReply(req), "pipe")
  /\ UNCHANGED <<armed, sockEnded, crashed, ends, handled, cfgVars, authVars,
                 req, filterPending, factoryCalls, connector, rejCode, dst, registered,
                 destFlowing, destErrHandler, piped, destBuf, destProduced, toDest, clientSent,
                 emitted>>

\* A catch that ends the session with SUCCEEDED, as the else branch of the
\* legacy connect does.
MutServerCatch(code) ==
  /\ factory' = "rejected"
  /\ rejCode' = code
  /\ ServerEnd(SUCCEEDED, "catch", "connect")
  /\ emitted' = Append(emitted, "proxyError")
  /\ UNCHANGED <<armed, sockEnded, crashed, handled, cfgVars, authVars,
                 req, filterPending, factoryCalls, connector, dst, registered, destVars>>

\* outboundSocket.catch(...)
ServerCatch(code) ==
  /\ factory' = "rejected"
  /\ rejCode' = code
  /\ ServerEnd(GENERAL_FAILURE, "catch", "connect")
  /\ emitted' = Append(emitted, "proxyError")
  /\ UNCHANGED <<armed, sockEnded, crashed, handled, cfgVars, authVars,
                 req, filterPending, factoryCalls, connector, dst, registered, destVars>>

\* ------------------------------------------------- socks5.ts (legacy)
\* The `binary` parser in buffer mode: a word that does not fit is null and
\* the offset stays; buffer(name, size) clamps its slice and advances by size
\* (a null size counts as 0).
BinFits(buf, off, n) == off + n <= Len(buf)

BinWord8(buf, off) == IF BinFits(buf, off, 1) THEN At(buf, off) ELSE Undef

BinWord16(buf, off) == IF BinFits(buf, off, 2) THEN ReadUInt16BE(buf, off) ELSE Undef

BinNext(buf, off, n) == IF BinFits(buf, off, n) THEN off + n ELSE off

BinSize(size) == IF size = Undef THEN 0 ELSE size

BinBuffer(buf, off, size) == Sub(buf, off, off + BinSize(size))

\* word8 ver, word8 nmethods, buffer methods[nmethods]
LegacyParseGreeting(buffer) ==
  LET o1 == BinNext(buffer, 0, 1)
      nmethods == BinWord8(buffer, o1)
      o2 == BinNext(buffer, o1, 1)
  IN [ver |-> BinWord8(buffer, 0),
      nmethods |-> nmethods,
      methods |-> BinBuffer(buffer, o2, nmethods)]

\* word8 ver, word8 ulen, buffer uname[ulen], word8 plen, buffer passwd[plen]
LegacyParseAuth(buffer) ==
  LET o1 == BinNext(buffer, 0, 1)
      ulen == BinWord8(buffer, o1)
      o2 == BinNext(buffer, o1, 1)
      o3 == o2 + BinSize(ulen)
      plen == BinWord8(buffer, o3)
      o4 == BinNext(buffer, o3, 1)
  IN [ver |-> BinWord8(buffer, 0),
      uname |-> BinBuffer(buffer, o2, ulen),
      passwd |-> BinBuffer(buffer, o4, plen)]

\* The two 16-bit groups of a word32be (a null word gives 0 and 0).
LegacyGroups(buf, off) ==
  IF BinFits(buf, off, 4)
  THEN <<ReadUInt16BE(buf, off), ReadUInt16BE(buf, off + 2)>>
  ELSE <<0, 0>>

\* word8 ver, cmd, rsv, atyp; then the address by atyp; then word16bu dst.port
\* at the offset the address parse left.
LegacyParseConnect(buffer) ==
  LET o1 == BinNext(buffer, 0, 1)
      o2 == BinNext(buffer, o1, 1)
      o3 == BinNext(buffer, o2, 1)
      o4 == BinNext(buffer, o3, 1)
      ver == BinWord8(buffer, 0)
      atyp == BinWord8(buffer, o3)
      size == BinWord8(buffer, o4)
      oSize == BinNext(buffer, o4, 1)
      a == BinNext(buffer, o4, 4)
      b == BinNext(buffer, a, 4)
      c == BinNext(buffer, b, 4)
      d == BinNext(buffer, c, 4)
      addr ==
        CASE ver # RFC_1928_VERSION -> [kind |-> "undefined", parts |-> <<>>, off |-> o4]
          [] atyp = ATYP_IPV4 ->
               [kind |-> "dotted",
                parts |-> BinBuffer(buffer, o4, LENGTH_RFC_1928_ATYP),
                off |-> o4 + LENGTH_RFC_1928_ATYP]
          [] atyp = ATYP_DOMAINNAME ->
               [kind |-> "text",
                parts |-> BinBuffer(buffer, oSize, size),
                off |-> oSize + BinSize(size)]
          [] atyp = ATYP_IPV6 ->
               [kind |-> "colon-hex",
                parts |-> LegacyGroups(buffer, o4) \o LegacyGroups(buffer, a)
                          \o LegacyGroups(buffer, b) \o LegacyGroups(buffer, c),
                off |-> d]
          [] OTHER -> [kind |-> "undefined", parts |-> <<>>, off |-> o4]
  IN [ver |-> ver,
      cmd |-> BinWord8(buffer, o1),
      rsv |-> BinWord8(buffer, o2),
      atyp |-> atyp,
      supported |-> atyp \in {ATYP_IPV4, ATYP_DOMAINNAME, ATYP_IPV6},
      addr |-> addr,
      port |-> BinWord16(buffer, addr.off)]

\* The handshake handler's decision.
LegacySelectMethod(buffer, basicAuth) ==
  LET args == LegacyParseGreeting(buffer)
      noAuth == ~basicAuth /\ Includes(args.methods, NO_AUTHENTICATION_REQUIRED)
  IN IF args.ver # RFC_1928_VERSION
     THEN [code |-> GENERAL_FAILURE, next |-> "end"]
     ELSE IF basicAuth
     THEN [code |-> BASIC_AUTHENTICATION, next |-> "authenticate"]
     ELSE IF ~basicAuth /\ noAuth
     THEN [code |-> NO_AUTHENTICATION_REQUIRED, next |-> "connect"]
     ELSE [code |-> NO_ACCEPTABLE_METHODS, next |-> "end"]

\* A mapping with the two recognised codes exchanged.
MutErrorToReply(code) ==
  IF code # "" /\ code = "EADDRNOTAVAIL" THEN CONNECTION_REFUSED
  ELSE IF code # "" /\ code = "ECONNREFUSED" THEN HOST_UNREACHABLE
  ELSE NETWORK_UNREACHABLE

\* The reply code for an error of the outbound connect or stream.
ErrorToReply(code) ==
  IF code # "" /\ code = "EADDRNOTAVAIL" THEN HOST_UNREACHABLE
  ELSE IF code # "" /\ code = "ECONNREFUSED" THEN CONNECTION_REFUSED
  ELSE NETWORK_UNREACHABLE

\* An end() that hands the request buffer back without writing the code.
MutLegacyEndBuffer(response, requestBuffer) ==
  IF requestBuffer = <<>>
  THEN <<RFC_1928_VERSION, response>>
  ELSE requestBuffer

\* The buffer end(response, args) hands to socket.end: the request buffer with
\* byte 1 overwritten, or 2 fresh bytes when args holds no request buffer.
LegacyEndBuffer(response, requestBuffer) ==
  IF requestBuffer = <<>>
  THEN <<RFC_1928_VERSION, response>>
  ELSE SetAt(requestBuffer, 1, response)

\* end(response, args): socket.end(responseBuffer) at once
LegacyEnd(response, requestBuffer, by, kind) ==
  /\ wire' = IF sockEnded THEN wire
             ELSE Append(wire, Reply(kind, LegacyEndBuffer(response, requestBuffer)))
  /\ sockEnded' = TRUE
  /\ ends' = Append(ends, [code |-> response, by |-> by])

\* The success reply: a copy of the request with byte 1 set to SUCCEEDED.
LegacySuccessReply(requestBuffer) == SetAt(requestBuffer, 1, SUCCEEDED)

LegacyHandshake(buffer) ==
  LET d == LegacySelectMethod(buffer, hasAuth) IN
  /\ handled' = Append(handled, "handshake")
  /\ armed' = "none"
  /\ IF d.next = "end"
     THEN /\ LegacyEnd(d.code, <<>>, "handshake", "method")
          /\ emitted' = Append(emitted, "proxyEnd")
          /\ UNCHANGED writeCbs
     ELSE /\ Write("method", <<RFC_1928_VERSION, d.code>>, d.next)
          /\ UNCHANGED <<ends, sockEnded, emitted>>
  /\ UNCHANGED <<crashed, cfgVars, authVars, connVars, destVars>>

LegacyAuthenticate(buffer) ==
  LET args == LegacyParseAuth(buffer) IN
  /\ handled' = Append(handled, "authenticate")
  /\ armed' = "none"
  /\ IF ~AuthVersionOk(args.ver)
     THEN /\ LegacyEnd(AUTH_GENERAL_FAILURE, buffer, "authenticate", "auth")
          /\ emitted' = Append(emitted, "proxyEnd")
          /\ UNCHANGED authReq
     ELSE /\ UNCHANGED <<wire, sockEnded, ends, emitted>>
          /\ authReq' = IF hasAuth
                        THEN [uname |-> args.uname, passwd |-> args.passwd,
                              buf |-> buffer, pending |-> TRUE]
                        ELSE authReq
  /\ UNCHANGED <<writeCbs, crashed, authOk, cfgVars, connVars, destVars>>

LegacyAuthDone(err) ==
  /\ authReq' = [authReq EXCEPT !.pending = FALSE]
  /\ IF err
     THEN /\ LegacyEnd(AUTH_GENERAL_FAILURE, authReq.buf, "authDone", "auth")
          /\ emitted' = emitted \o <<"authenticateError", "proxyEnd">>
          /\ UNCHANGED <<authOk, writeCbs>>
     ELSE /\ authOk' = TRUE
          /\ emitted' = Append(emitted, "authenticate")
          /\ Write("auth", <<RFC_1929_VERSION, AUTH_SUCCEEDED>>, "connect")
          /\ UNCHANGED <<ends, sockEnded>>
  /\ UNCHANGED <<armed, crashed, handled, cfgVars, connVars, destVars>>

\* The first tap ends the session on a bad version or an unsupported atyp, and
\* the chain goes on: dst.port is read and the second tap runs all the same.
LegacyConnect(buffer) ==
  LET args == LegacyParseConnect(buffer)
      firstEnd == IF args.ver # RFC_1928_VERSION THEN <<GENERAL_FAILURE>>
                  ELSE IF ~args.supported THEN <<ADDRESS_TYPE_NOT_SUPPORTED>>
                  ELSE <<>>
      secondEnd == IF args.cmd = CMD_CONNECT THEN <<>> ELSE <<SUCCEEDED>>
      codes == firstEnd \o secondEnd
  IN
  /\ handled' = Append(handled, "connect")
  /\ armed' = "none"
  /\ req' = buffer
  /\ registered' = IF args.ver = RFC_1928_VERSION THEN registered + 1 ELSE registered
  /\ dst' = [kind |-> args.addr.kind, addr |-> args.addr.parts, port |-> args.port]
  /\ filterPending' = (args.cmd = CMD_CONNECT)
  /\ emitted' = emitted \o [i \in 1..Len(codes) |-> "proxyEnd"]
  /\ IF codes = <<>>
     THEN UNCHANGED <<wire, sockEnded, ends>>
     ELSE /\ wire' = IF sockEnded THEN wire
                     ELSE Append(wire, Reply("connect", LegacyEndBuffer(codes[1], buffer)))
          /\ sockEnded' = TRUE
          /\ ends' = ends \o [i \in 1..Len(codes) |-> [code |-> codes[i], by |-> "connect"]]
  /\ UNCHANGED <<writeCbs, crashed, factory, factoryCalls, connector, rejCode, cfgVars, authVars, destVars>>

\* A filter callback that answers the error and goes on to the factory.
MutLegacyFilterDone(err) ==
  /\ filterPending' = FALSE
  /\ factory' = "pending"
  /\ factoryCalls' = factoryCalls + 1
  /\ connector' = SocketFactory
  /\ IF err
     THEN /\ LegacyEnd(CONNECTION_NOT_ALLOWED, req, "filter", "connect")
          /\ emitted' = emitted \o <<"connectionFilter", "proxyEnd">>
     ELSE UNCHANGED <<wire, sockEnded, ends, emitted>>
  /\ UNCHANGED <<armed, writeCbs, crashed, handled, cfgVars, authVars,
                 req, rejCode, dst, registered, destVars>>

\* the callback handed to the connection filter
LegacyFilterDone(err) ==
  /\ filterPending' = FALSE
  /\ IF err
     THEN /\ LegacyEnd(CONNECTION_NOT_ALLOWED, req, "filter", "connect")
          /\ emitted' = emitted \o <<"connectionFilter", "proxyEnd">>
          /\ UNCHANGED <<factory, factoryCalls, connector>>
     ELSE /\ factory' = "pending"
          /\ factoryCalls' = factoryCalls + 1
          /\ connector' = SocketFactory
          /\ UNCHANGED <<wire, sockEnded, ends, emitted>>
  /\ UNCHANGED <<armed, writeCbs, crashed, handled, cfgVars, authVars,
                 req, rejCode, dst, registered, destVars>>

\* socketFactory(...).then(...): the proxyData listener, the success reply, the
\* 'error' listener
LegacyThen ==
  /\ factory' = "resolved"
  /\ destOpen' = TRUE
  /\ destFlowing' = TRUE
  /\ destErrHandler' = TRUE
  /\ Write("connect", LegacySuccessReply(req), "pipe")
  /\ emitted' = emitted \o <<"proxyConnect", "proxyConnect">>
  /\ UNCHANGED <<armed, sockEnded, crashed, ends, handled, cfgVars, authVars,
                 req, filterPending, factoryCalls, connector, rejCode, dst, registered,
                 piped, destBuf, destProduced, toDest, clientSent>>

\* socketFactory(...).catch(...)
LegacyCatch(code) ==
  /\ factory' = "rejected"
  /\ rejCode' = code
  /\ LegacyEnd(ErrorToReply(code), req, "catch", "connect")
  /\ emitted' = emitted \o <<"proxyError", "proxyEnd">>
  /\ UNCHANGED <<armed, writeCbs, crashed, handled, cfgVars, authVars,
                 req, filterPending, factoryCalls, connector, dst, registered, destVars>>

\* destination.on("error", ...), and destination.on("close", ...) as the
\* failed stream closes
LegacyDestinationError(code) ==
  /\ LegacyEnd(ErrorToReply(code), req, "destError", "connect")
  /\ emitted' = emitted \o <<"proxyError", "proxyEnd", "proxyDisconnect">>
  /\ UNCHANGED <<armed, writeCbs, crashed, handled>>

\* --------------------------------------------------------------- actions
\* A pipe set up with { end: false }: it never ends its destination.
MutPipeFrom(gone) == FALSE

\* source.pipe(destination): whether the destination's end() is called, by
\* how the source went. Only 'end' of the source does it (at once, or on the
\* next tick when the source had ended before pipe was called); a source that
\* failed leaves the destination as it is.
PipeFrom(gone) == gone = "end"

\* A pipe that starts with the next chunk and forgets the ones held.
MutFlushed(chunks) == <<>>

\* The chunks a paused outbound stream held, written to the client in order.
Flushed(chunks) == [i \in 1..Len(chunks) |-> Reply("data", chunks[i])]

\* A 'data' event of the client socket. Once the pipes are set up the chunk
\* goes to the outbound stream; before that the armed once-handler consumes
\* it, and with no handler armed the flowing socket drops it.
OnData(c) ==
  /\ ~crashed
  /\ clientGone = "no"
  /\ UNCHANGED <<closing, clientGone, goneDuring, destEnded, destGone, peers>>
  /\ IF piped
     THEN /\ c \in RelayChunks
          /\ Len(clientSent) < MaxRelay
          /\ clientSent' = Append(clientSent, c)
          /\ toDest' = IF destOpen /\ ~destEnded THEN Append(toDest, c) ELSE toDest
          /\ UNCHANGED <<cfgVars, sockVars, authVars, connVars, emitted,
                         destOpen, destFlowing, destErrHandler, piped, destBuf, destProduced>>
     ELSE CASE armed = "handshake" ->
               IF impl = "server" THEN ServerHandshake(c) ELSE LegacyHandshake(c)
            [] armed = "authenticate" ->
               IF impl = "server" THEN ServerAuthenticate(c) ELSE LegacyAuthenticate(c)
            [] armed = "connect" ->
               IF impl = "server" THEN ServerConnect(c) ELSE LegacyConnect(c)
            [] OTHER ->
               UNCHANGED <<cfgVars, sockVars, authVars, connVars, destVars, emitted>>

\* The client sends a frame of the protocol, or a chunk for the relay.
ClientSend(c) ==
  /\ ~piped => c \in Frames
  /\ OnData(c)
  /\ UNCHANGED pos

\* options.authenticate calls done(): without error for the right credentials
AuthDone ==
  /\ ~crashed
  /\ authReq.pending
  /\ UNCHANGED lifeVars
  /\ LET err == ~Authenticator(authReq.uname, authReq.passwd) IN
     IF impl = "server" THEN ServerAuthDone(err) ELSE LegacyAuthDone(err)

\* The connection filter calls back: the stub of an absent filter never fails.
FilterDone(err) ==
  /\ ~crashed
  /\ filterPending
  /\ err => hasFilter
  /\ UNCHANGED lifeVars
  /\ LegacyFilterDone(err)

\* The callback of the oldest socket.write runs.
WriteCallback ==
  /\ ~crashed
  /\ writeCbs # <<>>
  /\ writeCbs' = Tail(writeCbs)
  /\ LET cb == Head(writeCbs) IN
     CASE cb = "sockEnd" ->
            /\ sockEnded' = TRUE
            /\ UNCHANGED <<armed, wire, piped, destBuf, emitted, destEnded>>
       [] cb = "pipe" ->
            /\ piped' = TRUE
            /\ destBuf' = <<>>
            /\ wire' = IF sockEnded THEN wire ELSE wire \o Flushed(destBuf)
            /\ destEnded' = (destEnded \/ PipeFrom(clientGone))
            /\ UNCHANGED <<armed, sockEnded, emitted>>
       [] OTHER ->
            /\ armed' = cb
            /\ emitted' = IF impl = "legacy" /\ handled = <<"handshake">>
                          THEN Append(emitted, "handshake")
                          ELSE emitted
            /\ UNCHANGED <<wire, sockEnded, piped, destBuf, destEnded>>
  /\ UNCHANGED <<crashed, ends, handled, cfgVars, authVars, connVars,
                 destOpen, destFlowing, destErrHandler, destProduced, toDest, clientSent,
                 closing, clientGone, goneDuring, destGone, peers, pos>>

FactoryResolve ==
  /\ ~crashed
  /\ factory = "pending"
  /\ UNCHANGED lifeVars
  /\ IF impl = "server" THEN ServerThen ELSE LegacyThen

FactoryReject(code) ==
  /\ ~crashed
  /\ factory = "pending"
  /\ UNCHANGED lifeVars
  /\ IF impl = "server" THEN ServerCatch(code) ELSE LegacyCatch(code)

\* The outbound stream produces a chunk.
DestData(c) ==
  /\ ~crashed
  /\ destOpen
  /\ Len(destProduced) < MaxRelay
  /\ UNCHANGED lifeVars
  /\ destProduced' = Append(destProduced, c)
  /\ emitted' = IF destFlowing THEN Append(emitted, "proxyData") ELSE emitted
  /\ IF piped
     THEN /\ wire' = IF sockEnded THEN wire ELSE Append(wire, Reply("data", c))
          /\ UNCHANGED destBuf
     ELSE /\ destBuf' = IF destFlowing THEN destBuf ELSE Append(destBuf, c)
          /\ UNCHANGED wire
  /\ UNCHANGED <<armed, writeCbs, sockEnded, crashed, ends, handled, cfgVars, authVars, connVars,
                 destOpen, destFlowing, destErrHandler, piped, toDest, clientSent>>

\* The outbound stream emits 'error'. server.ts has no listener for it: the
\* event is thrown.
DestError(code) ==
  /\ ~crashed
  /\ destOpen
  /\ destOpen' = FALSE
  /\ destGone' = "error"
  /\ UNCHANGED <<closing, clientGone, goneDuring, destEnded, peers, pos>>
  /\ IF destErrHandler
     THEN LegacyDestinationError(code)
     ELSE /\ crashed' = TRUE
          /\ UNCHANGED <<armed, wire, writeCbs, sockEnded, ends, handled, emitted>>
  /\ UNCHANGED <<cfgVars, authVars, connVars,
                 destFlowing, destErrHandler, piped, destBuf, destProduced, toDest, clientSent>>

\* The session is not waiting for any callback of its own.
Quiescent == writeCbs = <<>> /\ ~authReq.pending /\ ~filterPending /\ factory # "pending"

\* The phase of the session, by what it waits for.
Ran(handler) == \E i \in 1..Len(handled) : handled[i] = handler
Phase ==
  IF piped THEN "Relaying"
  ELSE IF factory = "resolved" THEN "Established"
  ELSE IF Ran("connect") THEN "Connecting"
  ELSE IF armed = "connect" \/ (\E i \in 1..Len(writeCbs) : writeCbs[i] = "connect")
  THEN "AwaitingRequest"
  ELSE IF Ran("handshake") THEN "AwaitingAuth"
  ELSE "Greeting"

\* close(): session.end() for every socket in activeSessions, then
\* server.close(callback), which stops the listener. The server object of
\* socks5.ts is the net.Server itself: its close() ends no session.
Close ==
  /\ ~crashed
  /\ closing = "no"
  /\ closing' = "called"
  /\ sockEnded' = (sockEnded \/ (impl = "server" /\ registered > 0))
  /\ UNCHANGED <<cfgVars, armed, wire, writeCbs, crashed, ends, handled, authVars, connVars,
                 destVars, emitted, clientGone, goneDuring, destEnded, destGone, peers, pos>>

\* The callback of server.close runs once every accepted connection has
\* closed.
CloseCallback ==
  /\ ~crashed
  /\ closing = "called"
  /\ clientGone # "no"
  /\ closing' = "done"
  /\ UNCHANGED <<cfgVars, sockVars, authVars, connVars, destVars, emitted,
                 clientGone, goneDuring, destEnded, destGone, peers, pos>>

\* activeSessions.splice(activeSessions.indexOf(socket), 1), by how many
\* entries are the session's own socket and how many are others': indexOf
\* finds the socket, or is -1, and splice(-1, 1) removes the last element.
Spliced(own, others) ==
  IF own > 0 THEN [own |-> own - 1, others |-> others]
  ELSE IF others > 0 THEN [own |-> own, others |-> others - 1]
  ELSE [own |-> own, others |-> others]

\* The connect handler of another session pushes its socket to
\* activeSessions.
PeerConnect ==
  /\ ~crashed
  /\ peers < MaxPeers
  /\ peers' = peers + 1
  /\ UNCHANGED <<cfgVars, sockVars, authVars, connVars, destVars, emitted,
                 closing, clientGone, goneDuring, destEnded, destGone, pos>>

\* The client socket emits 'end' (the client sent FIN). socket.pipe(destination)
\* ends the outbound stream; socks5.ts splices the socket out of
\* activeSessions; the socket, not half-open, ends its own side and closes.
ClientEnd ==
  /\ ~crashed
  /\ clientGone = "no"
  /\ clientGone' = "end"
  /\ goneDuring' = Phase
  /\ sockEnded' = TRUE
  /\ destEnded' = (destEnded \/ (piped /\ destOpen /\ PipeFrom("end")))
  /\ registered' = IF impl = "legacy" THEN Spliced(registered, peers).own ELSE registered
  /\ peers' = IF impl = "legacy" THEN Spliced(registered, peers).others ELSE peers
  /\ UNCHANGED <<cfgVars, armed, wire, writeCbs, crashed, ends, handled, authVars,
                 req, filterPending, factory, factoryCalls, connector, rejCode, dst,
                 destVars, emitted, closing, destGone, pos>>

\* The client socket emits 'error' and is destroyed: socket.on("error") emits
\* proxyError, and a pipe does nothing for a source that fails.
ClientError ==
  /\ ~crashed
  /\ clientGone = "no"
  /\ clientGone' = "error"
  /\ goneDuring' = Phase
  /\ sockEnded' = TRUE
  /\ emitted' = Append(emitted, "proxyError")
  /\ destEnded' = (destEnded \/ (piped /\ destOpen /\ PipeFrom("error")))
  /\ UNCHANGED <<cfgVars, armed, wire, writeCbs, crashed, ends, handled, authVars, connVars,
                 destVars, closing, destGone, peers, pos>>

\* The outbound stream emits 'end' while relaying: destination.pipe(socket)
\* ends the client socket, the stream closes, and socks5.ts emits
\* proxyDisconnect on its 'close'.
DestEnd ==
  /\ ~crashed
  /\ piped
  /\ destOpen
  /\ destOpen' = FALSE
  /\ destGone' = "end"
  /\ sockEnded' = (sockEnded \/ PipeFrom("end"))
  /\ emitted' = IF impl = "legacy" THEN Append(emitted, "proxyDisconnect") ELSE emitted
  /\ UNCHANGED <<cfgVars, armed, wire, writeCbs, crashed, ends, handled, authVars, connVars,
                 destFlowing, destErrHandler, piped, destBuf, destProduced, toDest, clientSent,
                 closing, clientGone, goneDuring, destEnded, peers, pos>>

Next ==
  \/ \E c \in Frames \cup RelayChunks : ClientSend(c)
  \/ AuthDone
  \/ \E err \in BOOLEAN : FilterDone(err)
  \/ WriteCallback
  \/ FactoryResolve
  \/ \E code \in ErrorCodes : FactoryReject(code)
  \/ \E c \in RelayChunks : DestData(c)
  \/ \E code \in ErrorCodes : DestError(code)

Spec == Init /\ [][Next]_vars

\* The same session with options.socketFactory configured.
SpecFactory == InitFactory /\ [][Next]_vars

\* The method negotiation alone, over every Greeting of the model: the client
\* sends its Greeting and the reply's write callback runs.
InitGreeting == InitSession /\ greeting \in Greetings /\ NoScript /\ ~hasFactory

SendGreeting ==
  /\ armed = "handshake"
  /\ ClientSend(greeting)

NextGreeting ==
  \/ SendGreeting
  \/ WriteCallback

SpecGreeting == InitGreeting /\ [][NextGreeting]_vars

\* A well-formed exchange: the client sends, one frame per read and each after
\* the previous reply, a Greeting of version 5 that offers the method the
\* configuration selects, the accepted credentials, and a CONNECT request with
\* a supported address type; the connection filter accepts and the outbound
\* connect resolves.
WellFormedFrames ==
  CASE armed = "handshake" ->
         {g \in Greetings : /\ Len(g) >= 2
                            /\ g[1] = RFC_1928_VERSION
                            /\ g[2] = Len(g) - 2
                            /\ Includes(From(g, 2), IF hasAuth THEN BASIC_AUTHENTICATION
                                                    ELSE NO_AUTHENTICATION_REQUIRED)}
    [] armed = "authenticate" ->
         {<<RFC_1929_VERSION, Len(TEST_USERNAME)>> \o TEST_USERNAME
            \o <<Len(TEST_PASSWORD)>> \o TEST_PASSWORD}
    [] armed = "connect" ->
         {<<RFC_1928_VERSION, CMD_CONNECT, 0, a>> \o AddrBytes(a) \o <<0, 80>> :
            a \in {ATYP_IPV4, ATYP_DOMAINNAME, ATYP_IPV6}}
    [] OTHER -> {}

SendWellFormed ==
  /\ ~piped
  /\ \E c \in WellFormedFrames : ClientSend(c)

FilterAccepts == FilterDone(FALSE)

NextExchange ==
  \/ SendWellFormed
  \/ AuthDone
  \/ FilterAccepts
  \/ WriteCallback
  \/ FactoryResolve

\* The client of a well-formed exchange sends its next frame, the callbacks
\* handed to the authenticator and the filter are called, the event loop runs
\* the callback of a flushed write, and the outbound connect resolves.
\* The session of a well-formed exchange together with everything that can
\* end it: both ends of the client connection and of the outbound stream,
\* errors of either, and close() of the server.
RelaySend == \E c \in RelayChunks : piped /\ ClientSend(c)
DestSends == \E c \in RelayChunks : DestData(c)
DestFails == DestError("ETIMEDOUT")

NextTeardown ==
  \/ SendWellFormed
  \/ RelaySend
  \/ AuthDone
  \/ FilterAccepts
  \/ WriteCallback
  \/ FactoryResolve
  \/ DestSends
  \/ DestFails
  \/ Close
  \/ CloseCallback
  \/ ClientEnd
  \/ ClientError
  \/ DestEnd

SpecTeardown == Init /\ [][NextTeardown]_vars

\* The session next to other sessions of the same server: their connect
\* handlers register their sockets while this session goes through a
\* well-formed exchange and its client ends or fails at any point.
NextSessions ==
  \/ SendWellFormed
  \/ AuthDone
  \/ FilterAccepts
  \/ WriteCallback
  \/ FactoryResolve
  \/ PeerConnect
  \/ ClientEnd
  \/ ClientError

SpecSessions == Init /\ [][NextSessions]_vars

\* The frames of a well-formed exchange for the configuration: a Greeting
\* that offers the one method the configuration selects, the accepted
\* credentials when authenticating, a CONNECT request to 127.0.0.1:80.
ScriptGreeting ==
  <<RFC_1928_VERSION, 1,
    IF hasAuth THEN BASIC_AUTHENTICATION ELSE NO_AUTHENTICATION_REQUIRED>>
ScriptAuth ==
  <<RFC_1929_VERSION, Len(TEST_USERNAME)>> \o TEST_USERNAME
    \o <<Len(TEST_PASSWORD)>> \o TEST_PASSWORD
ScriptRequest ==
  <<RFC_1928_VERSION, CMD_CONNECT, 0, ATYP_IPV4>> \o AddrBytes(ATYP_IPV4) \o <<0, 80>>
ScriptPrefix == IF hasAuth THEN <<ScriptGreeting, ScriptAuth>> ELSE <<ScriptGreeting>>
ScriptFrames == ScriptPrefix \o <<ScriptRequest>>

\* One frame per read: any Greeting; after the well-formed Greeting any
\* AuthRequest; after the well-formed frames before it any ConnectRequest.
FrameScripts ==
  {<<g>> : g \in Greetings}
  \cup {<<ScriptGreeting, a>> : a \in AuthRequests}
  \cup {ScriptPrefix \o <<r>> : r \in ConnectRequests \cup DecodeRequests}

\* The well-formed frames with one of them cut in two reads.
SplitScripts ==
  LET F == ScriptFrames IN
  {Sub(F, 0, i - 1) \o <<Sub(F[i], 0, k), From(F[i], k)>> \o From(F, i) :
     <<i, k>> \in {x \in (1..Len(F)) \X (1..9) : x[2] < Len(F[x[1]])}}

\* The well-formed frames with two consecutive ones in one read.
CoalescedScripts ==
  LET F == ScriptFrames IN
  {Sub(F, 0, i - 1) \o <<F[i] \o F[i + 1]>> \o From(F, i + 1) : i \in 1..(Len(F) - 1)}

Scripts ==
  CASE segmentation = "frames" -> FrameScripts
    [] segmentation = "split" -> SplitScripts
    [] segmentation = "coalesced" -> CoalescedScripts
    [] OTHER -> {ScriptFrames}

\* A session whose client delivers the reads of a script.
InitScript ==
  /\ InitSession
  /\ greeting = <<>>
  /\ ~hasFactory
  /\ segmentation \in {"frames", "split", "coalesced", "early"}
  /\ script \in Scripts

\* The client delivers the next read of its script: when a handler is armed
\* or the session waits for nothing; a client that sends early does not wait
\* for the write callback of the previous reply.
Deliver ==
  /\ pos < Len(script)
  /\ ~piped
  /\ segmentation = "early" \/ armed # "none" \/ Quiescent
  /\ OnData(script[pos + 1])
  /\ pos' = pos + 1

NextScript ==
  \/ Deliver
  \/ AuthDone
  \/ FilterAccepts
  \/ WriteCallback
  \/ FactoryResolve

SpecScript == InitScript /\ [][NextScript]_vars

SpecExchange ==
  /\ Init
  /\ [][NextExchange]_vars
  /\ WF_vars(SendWellFormed)
  /\ WF_vars(AuthDone)
  /\ WF_vars(FilterAccepts)
  /\ WF_vars(WriteCallback)
  /\ WF_vars(FactoryResolve)

\* ---------------------------------------------------------------- claims
IsData(e) == e.kind = "data"
IsFraming(e) == e.kind # "data"

\* The SOCKS replies on the wire, and the relayed chunks on the wire.
Framing(w) == SelectSeq(w, IsFraming)
Relayed(w) == LET d == SelectSeq(w, IsData) IN [i \in 1..Len(d) |-> d[i].bytes]

Closing == sockEnded \/ \E i \in 1..Len(writeCbs) : writeCbs[i] = "sockEnd"
KindCount(w, k) == Cardinality({i \in 1..Len(w) : w[i].kind = k})

\* C1: with an authenticate callback configured, the ConnectRequest handler is
\* armed and runs, the connection filter is called and the outbound factory is
\* invoked only after the callback called done() without error in the session.
C1_ConnectOnlyAfterAuth ==
  hasAuth =>
    ((armed = "connect" \/ Ran("connect") \/ filterPending
        \/ factory # "idle" \/ factoryCalls > 0 \/ destOpen \/ piped)
      => authOk)

C1_Witness ==
  /\ hasAuth
  /\ authOk
  /\ Ran("connect")
  /\ factory = "resolved"

\* The method set a well-formed Greeting offers.
Offered == {greeting[i] : i \in 3..Len(greeting)}
WellFormedGreeting ==
  /\ Len(greeting) >= 2
  /\ greeting[1] = RFC_1928_VERSION
  /\ greeting[2] = Len(greeting) - 2

\* the session replied 05 <method> and goes on / replied 05 FF and closes
Selected(method) == wire = <<Reply("method", <<RFC_1928_VERSION, method>>)>> /\ ~Closing
Refused == wire = <<Reply("method", <<RFC_1928_VERSION, NO_ACCEPTABLE_METHODS>>)>> /\ Closing

\* C2: server.ts answers a well-formed Greeting offering M with 05 02 when an
\* authenticate callback is configured and 0x02 is in M, with 05 00 when none
\* is configured and 0x00 is in M (whatever else M holds), and otherwise with
\* method 0xFF and a close.
C2_ServerSelection ==
  (impl = "server" /\ WellFormedGreeting /\ Ran("handshake")) =>
    IF hasAuth
    THEN IF BASIC_AUTHENTICATION \in Offered THEN Selected(BASIC_AUTHENTICATION) ELSE Refused
    ELSE IF NO_AUTHENTICATION_REQUIRED \in Offered
         THEN Selected(NO_AUTHENTICATION_REQUIRED) ELSE Refused

\* C3: socks5.ts answers a Greeting of version 5 offering M by the same rule:
\* USER_PASS only if 0x02 is in M, NO_AUTH only if 0x00 is in M, otherwise
\* 0xFF and a close; a selected method is always a member of M.
C3_LegacySelection ==
  (impl = "legacy" /\ WellFormedGreeting /\ Ran("handshake")) =>
    IF hasAuth
    THEN IF BASIC_AUTHENTICATION \in Offered THEN Selected(BASIC_AUTHENTICATION) ELSE Refused
    ELSE IF NO_AUTHENTICATION_REQUIRED \in Offered
         THEN Selected(NO_AUTHENTICATION_REQUIRED) ELSE Refused

\* C4: the replies socks5.ts writes to the client are at most one MethodReply,
\* then at most one AuthReply, then at most one ConnectReply, in that order.
C4_LegacyReplyOrder ==
  impl = "legacy" =>
    LET f == Framing(wire) IN
    /\ KindCount(f, "method") <= 1
    /\ KindCount(f, "auth") <= 1
    /\ KindCount(f, "connect") <= 1
    /\ \A i, j \in 1..Len(f) :
         i < j => \/ f[i].kind = "method" /\ f[j].kind \in {"auth", "connect"}
                  \/ f[i].kind = "auth" /\ f[j].kind = "connect"

\* C5: in server.ts end() runs at most once per session; its call writes one
\* 2-byte reply and ends the client connection, and after it no client frame
\* is handled and no reply is written. A session that stops before the relay
\* without an uncaught exception (no handler armed, no callback outstanding, no
\* outbound connect pending or resolved) has run end().
C5_OneReplyThenClose ==
  /\ [](impl = "server" =>
          /\ Len(ends) <= 1
          /\ Len(ends) = 1 =>
               /\ Closing
               /\ armed = "none"
               /\ wire # <<>>
               /\ wire[Len(wire)].bytes = <<RFC_1928_VERSION, ends[1].code>>
          /\ (/\ ~crashed
              /\ armed = "none"
              /\ writeCbs = <<>>
              /\ ~authReq.pending
              /\ factory \in {"idle", "rejected"}) => (Len(ends) = 1 /\ sockEnded))
  /\ [][(impl = "server" /\ ends # <<>>) =>
          (wire' = wire /\ handled' = handled /\ ends' = ends)]_vars

C5_Witness ==
  /\ impl = "server"
  /\ Len(ends) = 1
  /\ ends[1].by = "catch"
  /\ sockEnded
  /\ Len(wire) = 2

\* C6: once socks5.ts has written the SUCCEEDED reply and set up the relay, it
\* writes no further SOCKS framing to the client socket.
C6_LegacyNoFramingInRelay ==
  [][(impl = "legacy" /\ piped) => Framing(wire') = Framing(wire)]_vars

\* C7: in server.ts, once the outbound connect resolved, what the outbound
\* stream produces reaches the client unchanged and in order after the
\* SUCCEEDED reply (held back until the pipes are set up), and once the pipes
\* are set up what the client sends reaches the outbound stream unchanged and
\* in order.
C7_ServerRelayTransparent ==
  (impl = "server" /\ factory = "resolved" /\ ~crashed) =>
    /\ Relayed(wire) \o destBuf = destProduced
    /\ piped => destBuf = <<>>
    /\ ~piped => Relayed(wire) = <<>>
    /\ toDest = clientSent
    /\ wire = Framing(wire) \o SelectSeq(wire, IsData)
    /\ Framing(wire)[Len(Framing(wire))] = Reply("connect", ServerSuccessReply(req))

C7_Witness ==
  /\ impl = "server"
  /\ piped
  /\ Len(toDest) = 2
  /\ toDest[1] # toDest[2]
  /\ Len(Relayed(wire)) = 2
  /\ Relayed(wire)[1] # Relayed(wire)[2]

\* C8: in socks5.ts every chunk the outbound stream produces after the factory
\* resolved is delivered to the client, whatever the interleaving of its data
\* events with the completion of the reply write.
C8_LegacyDestBytesDelivered ==
  (impl = "legacy" /\ piped /\ ~sockEnded /\ ~crashed) => Relayed(wire) = destProduced

\* C9: if the outbound factory rejects, the session never writes a SUCCEEDED
\* reply and never starts the relay: one ConnectReply with a non-zero code is
\* on the wire and the client connection is closed.
C9_RejectNeverSucceeds ==
  factory = "rejected" =>
    /\ ~piped
    /\ ~destOpen
    /\ \A i \in 1..Len(writeCbs) : writeCbs[i] # "pipe"
    /\ KindCount(wire, "connect") = 1
    /\ \A i \in 1..Len(wire) :
         wire[i].kind = "connect" =>
           (Len(wire[i].bytes) >= 2 /\ wire[i].bytes[2] # SUCCEEDED)
    /\ Closing

C9_Witness ==
  /\ factory = "rejected"
  /\ impl = "server"
  /\ sockEnded
  /\ KindCount(wire, "connect") = 1

\* C10: when the outbound factory of socks5.ts rejects, the reply code handed
\* to end() is 0x04 for EADDRNOTAVAIL, 0x05 for ECONNREFUSED and 0x03 for any
\* other or missing code, and it is the code of the ConnectReply on the wire
\* unless an earlier end() had closed the socket.
C10_LegacyErrorMapping ==
  (impl = "legacy" /\ factory = "rejected") =>
    LET e == ends[Len(ends)]
        expected == CASE rejCode = "EADDRNOTAVAIL" -> 4
                      [] rejCode = "ECONNREFUSED" -> 5
                      [] OTHER -> 3
    IN /\ e.by = "catch"
       /\ e.code = expected
       /\ Len(ends) = 1 =>
            /\ wire[Len(wire)].kind = "connect"
            /\ wire[Len(wire)].bytes[2] = expected

C10_Witness ==
  /\ impl = "legacy"
  /\ factory = "rejected"
  /\ rejCode = "ECONNREFUSED"
  /\ Len(ends) = 1
  /\ wire[Len(wire)].bytes[2] = 5

\* The ConnectReply the client socket accepted last, and its reply code.
LastReply == wire[Len(wire)]
ConnectReplied == wire # <<>> /\ LastReply.kind = "connect" /\ Len(LastReply.bytes) >= 2
ReplyCode == LastReply.bytes[2]

\* The request the connect handler was given: its fields, and the frames that
\* are a complete ConnectRequest of version 5 with a supported address type.
ReqCmd == At(req, 1)
ReqAtyp == At(req, 3)
WellFormedRequest ==
  req \in {<<RFC_1928_VERSION, c, 0, a>> \o AddrBytes(a) \o <<0, 80>> :
             c \in {CMD_CONNECT, CMD_BIND, CMD_UDP_ASSOCIATE},
             a \in {ATYP_IPV4, ATYP_DOMAINNAME, ATYP_IPV6}}
UnsupportedAtyp ==
  /\ Len(req) >= 4
  /\ At(req, 0) = RFC_1928_VERSION
  /\ ReqAtyp \notin {ATYP_IPV4, ATYP_DOMAINNAME, ATYP_IPV6}

\* C11: in server.ts without authentication, a CONNECT whose outbound factory
\* rejects with ECONNREFUSED is answered with reply code 0x05 and closed.
C11_ServerRefusedReply ==
  (impl = "server" /\ ~hasAuth /\ factory = "rejected" /\ rejCode = "ECONNREFUSED") =>
    /\ ConnectReplied
    /\ ReplyCode = CONNECTION_REFUSED
    /\ Closing

\* C12: in both implementations a ConnectRequest of version 5 whose atyp is
\* not 1, 3 or 4 gets one ConnectReply, with code 0x08, and the client
\* connection is closed.
C12_UnsupportedAtypReply ==
  (Ran("connect") /\ UnsupportedAtyp) =>
    /\ KindCount(wire, "connect") = 1
    /\ ConnectReplied
    /\ ReplyCode = ADDRESS_TYPE_NOT_SUPPORTED
    /\ Closing

C12_Witness ==
  /\ impl = "legacy"
  /\ UnsupportedAtyp
  /\ ReqCmd = CMD_CONNECT
  /\ sockEnded
  /\ ReplyCode = 8

\* C13: in both implementations a well-formed ConnectRequest whose cmd is BIND
\* or UDP_ASSOCIATE is answered with reply code 0x07 and the connection is
\* closed.
C13_CommandNotSupportedReply ==
  (Ran("connect") /\ WellFormedRequest /\ ReqCmd \in {CMD_BIND, CMD_UDP_ASSOCIATE}) =>
    /\ ConnectReplied
    /\ ReplyCode = COMMAND_NOT_SUPPORTED
    /\ Closing

\* C14: in server.ts a ConnectRequest whose cmd is BIND or UDP_ASSOCIATE never
\* has the outbound factory invoked and never gets a relay.
C14_ServerOnlyConnect ==
  (impl = "server" /\ Ran("connect") /\ ReqCmd \in {CMD_BIND, CMD_UDP_ASSOCIATE}) =>
    /\ factoryCalls = 0
    /\ factory = "idle"
    /\ ~destOpen
    /\ ~piped

\* end() was called by the callback of the connection filter
FilterRejected == \E i \in 1..Len(ends) : ends[i].by = "filter"
Emitted(event) == \E i \in 1..Len(emitted) : emitted[i] = event

\* The destination of the well-formed requests of the model, by address type.
ExpectedDst ==
  CASE ReqAtyp = ATYP_IPV4 -> [kind |-> "dotted", addr |-> <<127, 0, 0, 1>>, port |-> 80]
    [] ReqAtyp = ATYP_DOMAINNAME -> [kind |-> "text", addr |-> <<97>>, port |-> 80]
    [] OTHER -> [kind |-> "colon-hex", addr |-> <<8193, 3512, 0, 0, 0, 0, 0, 1>>, port |-> 80]

\* C15: in socks5.ts the connection filter is called for every CONNECT request
\* when the connect handler ran, with the decoded destination, and the
\* outbound factory is invoked only by the filter's callback; once the callback
\* was given an error the connectionFilter event is emitted, the reply is
\* 0x02, the socket is ended and the factory is never invoked.
C15_LegacyFilterGuardsFactory ==
  /\ [](impl = "legacy" =>
          /\ (filterPending /\ WellFormedRequest) => dst = ExpectedDst
          /\ FilterRejected =>
               /\ hasFilter
               /\ Emitted("connectionFilter")
               /\ sockEnded
               /\ factoryCalls = 0
               /\ factory = "idle"
               /\ ~destOpen
               /\ Len(ends) = 1 => (ConnectReplied /\ ReplyCode = CONNECTION_NOT_ALLOWED))
  /\ [][impl = "legacy" =>
          /\ (handled' # handled /\ handled'[Len(handled')] = "connect"
                /\ At(req', 1) = CMD_CONNECT) => filterPending'
          /\ factoryCalls' # factoryCalls => (filterPending /\ ~filterPending')]_vars

C15_Witness ==
  /\ impl = "legacy"
  /\ hasFilter
  /\ WellFormedRequest
  /\ FilterRejected
  /\ Len(ends) = 1
  /\ ReplyCode = 2

\* C16: in server.ts with a connectionFilter configured, the outbound factory
\* is invoked only by the callback of a pending call of the filter.
C16_ServerFilterGuardsFactory ==
  [][(impl = "server" /\ hasFilter /\ factoryCalls' # factoryCalls)
       => (filterPending /\ ~filterPending')]_vars

\* The AuthReplies on the wire.
IsAuthReply(e) == e.kind = "auth"
AuthReplies == SelectSeq(wire, IsAuthReply)
AuthRejected == \E i \in 1..Len(ends) : ends[i].by = "authDone"

\* C17: in server.ts, when the authenticate callback rejects the credentials
\* the AuthReply written is 01 FF, and the connection is closed.
C17_ServerAuthFailureReply ==
  (impl = "server" /\ AuthRejected) =>
    /\ AuthReplies = <<Reply("auth", <<RFC_1929_VERSION, AUTH_GENERAL_FAILURE>>)>>
    /\ LastReply.kind = "auth"
    /\ Closing

\* C18: in socks5.ts every AuthReply is 2 bytes, 01 00 when the authenticate
\* callback accepted and 01 FF when it rejected.
C18_LegacyAuthReplyTwoBytes ==
  impl = "legacy" =>
    \A i \in 1..Len(AuthReplies) :
      AuthReplies[i].bytes =
        <<RFC_1929_VERSION, IF authOk THEN AUTH_SUCCEEDED ELSE AUTH_GENERAL_FAILURE>>

\* C19: in both implementations a frame handler is armed only by the callback
\* of a completed write and only when none is armed; while a handler is armed
\* or runs, no write is outstanding and every frame handled so far has its
\* reply on the wire.
C19_FramesStrictlyOrdered ==
  /\ [](armed # "none" => (writeCbs = <<>> /\ Len(Framing(wire)) = Len(handled)))
  /\ [][((handled' # handled) =>
           (armed # "none" /\ writeCbs = <<>> /\ Len(handled') = Len(handled) + 1))
        /\ ((armed' # armed /\ armed' # "none") =>
           (armed = "none" /\ writeCbs # <<>> /\ writeCbs' = Tail(writeCbs)))]_vars

C19_Witness ==
  /\ impl = "legacy"
  /\ hasAuth
  /\ armed = "connect"
  /\ handled = <<"handshake", "authenticate">>
  /\ Len(wire) = 2

\* C20: in server.ts no frame of any length makes a data handler throw: before
\* an outbound connect is asked for, the session has no uncaught exception,
\* and once it stops it has sent a reply and ended the socket.
C20_ServerNoUncaughtException ==
  (impl = "server" /\ factory = "idle") =>
    /\ ~crashed
    /\ (armed = "none" /\ writeCbs = <<>> /\ ~authReq.pending) =>
         (Len(ends) = 1 /\ sockEnded)

\* How often an event was emitted on the server object.
EmitCount(event) == Cardinality({i \in 1..Len(emitted) : emitted[i] = event})

\* The ConnectReplies the client socket accepted.
IsConnectReply(e) == e.kind = "connect"
ConnectReplies == SelectSeq(wire, IsConnectReply)

\* C27: in both implementations proxyConnect is emitted exactly once for an
\* outbound connect that succeeded, and never when the connect did not
\* succeed.
C27_ProxyConnectOnce ==
  EmitCount("proxyConnect") = (IF factory = "resolved" THEN 1 ELSE 0)

\* C29: in socks5.ts every ConnectReply written to the client, success or
\* failure, has version byte 0x05 and reserved byte 0x00, whatever the
\* version and reserved bytes of the request.
C29_LegacyReplyVersionAndReserved ==
  impl = "legacy" =>
    \A i \in 1..Len(ConnectReplies) :
      /\ At(ConnectReplies[i].bytes, 0) = RFC_1928_VERSION
      /\ Len(ConnectReplies[i].bytes) > 2 => At(ConnectReplies[i].bytes, 2) = 0

\* C30: in server.ts the SUCCEEDED ConnectReply has the length of the request,
\* its bytes 0..2 are 05 00 00 and its bytes from index 3 on are those of the
\* request; the request buffer the handler keeps is never modified.
C30_ServerSuccessReplyShape ==
  /\ []((impl = "server" /\ factory = "resolved") =>
          /\ Len(ConnectReplies) = 1
          /\ Len(ConnectReplies[1].bytes) = Len(req)
          /\ Sub(ConnectReplies[1].bytes, 0, 3) = <<RFC_1928_VERSION, SUCCEEDED, 0>>
          /\ From(ConnectReplies[1].bytes, 3) = From(req, 3))
  /\ [][(impl = "server" /\ req # <<>>) => (req' = req)]_vars

C30_Witness ==
  /\ impl = "server"
  /\ factory = "resolved"
  /\ ReqAtyp = ATYP_DOMAINNAME
  /\ Len(ConnectReplies) = 1
  /\ ConnectReplies[1].bytes = <<5, 0, 0, 3, 1, 97, 0, 80>>
  /\ piped

\* C28: in both implementations a configured socketFactory replaces the
\* default TCP connect: the default connect is never invoked, the outbound
\* connect of a CONNECT request is asked for once (in socks5.ts by the filter's
\* callback, unless it was given an error) with the decoded host and port, and
\* the pipes couple the client to the stream that connect resolved with.
C28_SocketFactoryOverrides ==
  hasFactory =>
    /\ connector \in {"none", "socketFactory"}
    /\ factoryCalls <= 1
    /\ (connector = "none") = (factoryCalls = 0)
    /\ (req # <<>> /\ ReqCmd = CMD_CONNECT /\ WellFormedRequest) =>
         /\ dst = ExpectedDst
         /\ IF impl = "server" THEN factoryCalls = 1
            ELSE (factoryCalls = 0) = (filterPending \/ FilterRejected)
    /\ (piped \/ destOpen) => (factory = "resolved" /\ connector = "socketFactory")

C28_Witness ==
  /\ hasFactory
  /\ WellFormedRequest
  /\ ReqCmd = CMD_CONNECT
  /\ factoryCalls = 1
  /\ connector = "socketFactory"
  /\ dst = ExpectedDst
  /\ factory = "resolved"
  /\ piped

\* The replies of a completed well-formed exchange, in order: MethodReply
\* 05 00 or 05 02, AuthReply 01 00 when authenticating, a ConnectReply that
\* starts 05 00; then the pipes are set up.
ExchangeCompleted ==
  /\ piped
  /\ LET f == Framing(wire)
         n == IF hasAuth THEN 3 ELSE 2
     IN /\ Len(f) = n
        /\ f[1] = Reply("method", <<RFC_1928_VERSION,
                                    IF hasAuth THEN BASIC_AUTHENTICATION
                                    ELSE NO_AUTHENTICATION_REQUIRED>>)
        /\ hasAuth => f[2] = Reply("auth", <<RFC_1929_VERSION, AUTH_SUCCEEDED>>)
        /\ f[n].kind = "connect"
        /\ Sub(f[n].bytes, 0, 2) = <<RFC_1928_VERSION, SUCCEEDED>>
        /\ Len(f[n].bytes) = Len(req)

\* C26: in both implementations a well-formed exchange whose outbound connect
\* resolves eventually has the MethodReply, the AuthReply 01 00 when
\* authenticating and a ConnectReply starting 05 00 on the wire, in this
\* order and nothing else, and is then relaying.
C26_WellFormedExchangeCompletes == <>[]ExchangeCompleted

\* C21: in server.ts, once close() was called, every accepted session whose
\* client connection is still open is ended (its socket is ended, or the
\* write whose callback ends it is under way), whatever phase it is in.
C21_CloseEndsEverySession ==
  (impl = "server" /\ closing # "no" /\ clientGone = "no") => Closing

\* C22: in server.ts, once the callback of close() has run and the session
\* waits for nothing, neither the client socket nor an outbound stream of the
\* session is open.
C22_NoOpenSocketAfterClose ==
  (impl = "server" /\ closing = "done" /\ Quiescent /\ ~crashed) =>
    /\ clientGone # "no"
    /\ destOpen => destEnded

\* C23: in both implementations, while relaying, the end of the client stream
\* ends the outbound stream and the end of the outbound stream ends the
\* client stream, by end() and in the same step; the chunks received before
\* were written to the other side and the end takes none of them back.
C23_EndOfStreamPropagates ==
  /\ []((clientGone = "end" /\ goneDuring = "Relaying" /\ destGone = "no") =>
          (destEnded /\ toDest = clientSent))
  /\ []((destGone = "end") => (piped /\ sockEnded))
  /\ [][((piped /\ destOpen /\ ~destEnded /\ clientSent' # clientSent) =>
           (toDest' = Append(toDest, clientSent'[Len(clientSent')])))
        /\ ((piped /\ ~sockEnded /\ destProduced' # destProduced) =>
           (wire' = Append(wire, Reply("data", destProduced'[Len(destProduced')]))))
        /\ ((clientGone' # clientGone \/ destGone' = "end") =>
           (wire' = wire /\ toDest' = toDest))]_vars

C23_Witness ==
  /\ clientGone = "end"
  /\ goneDuring = "Relaying"
  /\ destGone = "no"
  /\ destOpen
  /\ destEnded
  /\ Len(clientSent) = 2
  /\ toDest = clientSent

\* C24: in both implementations, while relaying, an error of the client
\* stream closes or ends the outbound stream, and an error of the outbound
\* stream ends the client stream without an uncaught exception.
C24_ErrorTearsDownBoth ==
  /\ (clientGone = "error" /\ goneDuring = "Relaying") => (~destOpen \/ destEnded)
  /\ (destGone = "error" /\ piped) => (~crashed /\ sockEnded)

\* C25: in both implementations, when the client connection closed or failed
\* while the outbound connect was pending, the outbound stream that connect
\* resolved with is closed or ended once the session waits for nothing.
C25_OutboundClosedWhenClientGone ==
  (goneDuring = "Connecting" /\ factory = "resolved" /\ Quiescent /\ ~crashed) =>
    (~destOpen \/ destEnded)

\* The session was accepted and is not torn down: the client connection is
\* there and the server has not ended its side.
Live == clientGone = "no" /\ ~sockEnded

\* C31: in server.ts the socket of the session is in activeSessions exactly
\* while the session is live, and never twice.
C31_RegistryHoldsLiveSessions ==
  impl = "server" => registered = (IF Live THEN 1 ELSE 0)

\* The first stage of the ConnectRequest handler of socks5.ts answered with a
\* failure: the version is not 5, or the address type is not supported.
FirstStageFailed ==
  /\ Ran("connect")
  /\ \/ At(req, 0) # RFC_1928_VERSION
     \/ At(req, 3) \notin {ATYP_IPV4, ATYP_DOMAINNAME, ATYP_IPV6}

\* C34: in socks5.ts, once the first stage of the ConnectRequest handler has
\* answered with a failure, nothing more is done for the request: the filter
\* and the outbound factory are not invoked and end() is not called again.
C34_LegacyFirstStageFailureStops ==
  (impl = "legacy" /\ FirstStageFailed) =>
    /\ ~filterPending
    /\ ~Emitted("connectionFilter")
    /\ factoryCalls = 0
    /\ factory = "idle"
    /\ Len(ends) = 1
    /\ EmitCount("proxyEnd") = 1

\* C32: in socks5.ts the end of this session's client connection removes at
\* most this session's own socket from activeSessions: the sockets of other
\* sessions all stay, also when this session was never registered.
C32_LegacyEndRemovesOwnSocketOnly ==
  [][(impl = "legacy") => (peers' >= peers)]_vars

\* Every read of the script was delivered and nothing is under way.
Delivered == pos = Len(script) /\ Quiescent

\* The last frame of a one-frame-per-read script, and the handler it met.
LastFrame == script[Len(script)]
LastHandler == handled[Len(handled)]
LastFrameHandled ==
  segmentation = "frames" /\ pos = Len(script) /\ Len(handled) = Len(script)

\* A frame cut short for the phase it arrives in: a Greeting shorter than
\* 2 + NMETHODS, an AuthRequest that does not cover ULEN UNAME PLEN PASSWD, a
\* ConnectRequest shorter than its address type requires.
Truncated(handler, f) ==
  CASE handler = "handshake" -> Len(f) < 2 \/ Len(f) < 2 + f[2]
    [] handler = "authenticate" ->
         \/ Len(f) < 2
         \/ Len(f) < 3 + f[2]
         \/ Len(f) < 3 + f[2] + f[3 + f[2]]
    [] OTHER ->
         \/ Len(f) < 4
         \/ f[4] = ATYP_IPV4 /\ Len(f) < 10
         \/ f[4] = ATYP_IPV6 /\ Len(f) < 22
         \/ f[4] = ATYP_DOMAINNAME /\ (Len(f) < 5 \/ Len(f) < 7 + f[5])

\* The last thing the session did was to end with a failure code that the
\* client received as a reply with a status byte.
ErrorReplied ==
  /\ sockEnded
  /\ ends # <<>>
  /\ ends[Len(ends)].code # SUCCEEDED
  /\ wire # <<>>
  /\ LET r == wire[Len(wire)].bytes IN
       Len(r) >= 2 /\ r[2] = ends[Len(ends)].code

\* C33: in socks5.ts a truncated frame in any phase makes the session send an
\* error reply and end the connection: once the frame was handled and the
\* session waits for nothing, the error reply is out and the socket is ended.
C33_LegacyTruncatedFrameRejected ==
  (impl = "legacy" /\ LastFrameHandled /\ Truncated(LastHandler, LastFrame) /\ Quiescent)
    => ErrorReplied

\* The frame the authenticate handler was handed is a whole AuthRequest but
\* for its version byte.
WrongVersionAuthHandled ==
  /\ LastFrameHandled
  /\ LastHandler = "authenticate"
  /\ ~Truncated("authenticate", LastFrame)
  /\ LastFrame[1] # RFC_1929_VERSION

\* C38: in both implementations an AuthRequest whose version byte is not 0x01
\* is rejected without a call of the authenticate callback: the one reply to
\* it has status 0xFF, the socket is ended (in server.ts by the callback of
\* that write), and the connect handler is never armed nor run.
C38_WrongAuthVersionRejected ==
  WrongVersionAuthHandled =>
    /\ ~authReq.pending /\ ~authOk
    /\ ~Emitted("authenticate") /\ ~Emitted("authenticateError")
    /\ Len(ends) = 1 /\ ends[1].code = AUTH_GENERAL_FAILURE /\ ends[1].by = "authenticate"
    /\ Len(wire) = 2 /\ wire[2].kind = "auth" /\ wire[2].bytes[2] = AUTH_GENERAL_FAILURE
    /\ sockEnded \/ (\E i \in 1..Len(writeCbs) : writeCbs[i] = "sockEnd")
    /\ armed = "none" /\ ~Ran("connect") /\ Phase = "AwaitingAuth"
    /\ \A i \in 1..Len(writeCbs) : writeCbs[i] # "connect"

C38_Witness ==
  /\ WrongVersionAuthHandled
  /\ Quiescent
  /\ sockEnded
  /\ wire[2].bytes[2] = AUTH_GENERAL_FAILURE

\* The host of a ConnectRequest as the protocol defines its text: for IPv4
\* the four address bytes in decimal joined by "."; for IPv6 eight groups
\* joined by ":", each the hex of the successive 16-bit big-endian word; for a
\* domain name the L bytes after the length byte L.
RequestHost(r) ==
  CASE r[4] = ATYP_IPV4 -> Join([i \in 1..4 |-> NumToString(r[4 + i], 10)], ".")
    [] r[4] = ATYP_IPV6 ->
         Join([i \in 1..8 |-> NumToString(r[3 + 2 * i] * 256 + r[4 + 2 * i], 16)], ":")
    [] OTHER -> SubSeq(r, 6, 5 + r[5])

\* The 16-bit big-endian value of the two bytes right after the address.
RequestPort(r) ==
  LET n == CASE r[4] = ATYP_IPV4 -> 4 [] r[4] = ATYP_IPV6 -> 16 [] OTHER -> 1 + r[5]
  IN r[4 + n + 1] * 256 + r[4 + n + 2]

\* How many characters of the text are sep, and whether two are adjacent.
Count(text, sep) == Cardinality({i \in 1..Len(text) : text[i] = sep})
Doubled(text, sep) == \E i \in 1..(Len(text) - 1) : text[i] = sep /\ text[i + 1] = sep

\* C35: in server.ts the host and port handed to the outbound factory are
\* the text of the request's address (dotted decimal; eight lowercase hex
\* groups of the 16-bit big-endian words joined by ":", never abbreviated
\* with "::"; the L bytes of the name) and the 16-bit big-endian value of the
\* two bytes after the address.
C35_ServerDestinationText ==
  (impl = "server" /\ factoryCalls > 0) =>
    /\ req[4] \in {ATYP_IPV4, ATYP_DOMAINNAME, ATYP_IPV6}
    /\ HostText(dst.kind, dst.addr) = RequestHost(req)
    /\ dst.port = RequestPort(req)
    /\ req[4] = ATYP_IPV6 =>
         /\ Count(HostText(dst.kind, dst.addr), ":") = 7
         /\ ~Doubled(HostText(dst.kind, dst.addr), ":")

C35_Witness ==
  /\ impl = "server"
  /\ factoryCalls > 0
  /\ req[4] = ATYP_IPV6
  /\ HostText(dst.kind, dst.addr) =
       <<"f", "f", "f", "f", ":", "8", "0", "0", "0", ":", "a", ":", "1", "0", "0", ":",
         "a", "b", "c", "d", ":", "0", ":", "f", "f", "0", ":", "1", "2", "3", "4">>
  /\ dst.port = 443

\* C36: in server.ts a ConnectRequest with a DomainName of length 0 is not
\* accepted: the outbound factory is never invoked with an empty host.
C36_ServerNoEmptyHost ==
  (impl = "server" /\ factoryCalls > 0) => HostText(dst.kind, dst.addr) # <<>>

\* The bytes of a script, whatever the reads they come in.
RECURSIVE Flat(_)
Flat(reads) == IF reads = <<>> THEN <<>> ELSE Head(reads) \o Flat(Tail(reads))

\* What the client got and where the session stands.
Outcome == [replies |-> [i \in 1..Len(wire) |-> wire[i].bytes], phase |-> Phase]

\* The outcome of the well-formed frames delivered one per read, each after
\* the reply to the one before: MethodReply, AuthReply when authenticating,
\* the ConnectReply 05 00 00 01 7f 00 00 01 00 50, and the relay set up.
WholeOutcome ==
  [replies |->
     IF hasAuth
     THEN <<<<RFC_1928_VERSION, BASIC_AUTHENTICATION>>, <<RFC_1929_VERSION, AUTH_SUCCEEDED>>,
            <<RFC_1928_VERSION, SUCCEEDED, 0, ATYP_IPV4, 127, 0, 0, 1, 0, 80>>>>
     ELSE <<<<RFC_1928_VERSION, NO_AUTHENTICATION_REQUIRED>>,
            <<RFC_1928_VERSION, SUCCEEDED, 0, ATYP_IPV4, 127, 0, 0, 1, 0, 80>>>>,
   phase |-> "Relaying"]

\* C37: in both implementations the outcome of a session does not depend on
\* how the client's bytes are cut into reads: once the bytes of the
\* well-formed frames were delivered, in whole frames, with a frame split
\* over two reads, with two frames in one read, or with a frame sent before
\* the write callback of the previous reply, and the session waits for
\* nothing, the replies and the phase are those of one frame per read.
C37_SegmentationIndependent ==
  (Flat(script) = Flat(ScriptFrames) /\ Delivered) => Outcome = WholeOutcome

====
